---- MODULE Spec2Model ----
(***************************************************************************)
(* Model of the aita class of src/aita.py (AITA toolbox): the per-pixel    *)
(* fields phi1, phi, qua, micro and grains, the operations fliplr, rot180, *)
(* filter and mean_grain, craft with its boundary-healing loop and the     *)
(* files it writes, the orientation tensor of plotpdf and the lists of     *)
(* misorientation_profile.                                                 *)
(*                                                                         *)
(* Angles are floating-point numbers in the source.  They are modelled as  *)
(* numbers of a binary floating-point format with a Precision-bit          *)
(* significand, round-to-nearest-even, and smallest exponent 0: a value is *)
(* an integer count of units, One units making 1.0; below 2.0 every count  *)
(* is representable, in [2,4) every second one, in [4,8) every fourth...   *)
(* NaN is the one value outside the numbers.                               *)
(***************************************************************************)
EXTENDS Integers, Sequences, FiniteSets, TLC

\* shape, phi1, phi, qua, micro, grains: the grid and the fields of the object.
\* pc, idx: where craft stands ("while": in its healing loop) and its idx.
\* History of the last operation: its name (last), argument (arg: the
\* threshold of filter, the index in PlotArgs of the arguments of plotpdf, 0
\* for the other operations) and outcome,
\* the fields before it (pre), the passes of the healing loop it ran (npass) and
\* the number of NaN labels before the last pass (lastCount); crafted tells
\* whether a healing pass has ever written the fields.
\* files: what the last operation wrote to nameId_micro.vtk and nameId.phase
\* (craft writes them when its healing loop has ended; no other operation
\* writes a file).
\* pos: the end points of the line that the caller gives misorientation_profile.
\* ret: what the last operation returned (the field operations return
\* nothing), with the local lists and the tensor it was computed from.
VARIABLES shape, phi1, phi, qua, micro, grains,
          pc, idx, npass, lastCount,
          last, arg, outcome, pre, crafted, files, pos, ret

vars == <<shape, phi1, phi, qua, micro, grains, pc, idx, npass, lastCount,
          last, arg, outcome, pre, crafted, files, pos, ret>>

---------------------------------------------------------------------------
(* Bounds of the model *)

\* bits of the significand of the modelled floating-point format
Precision == 4
\* grain labels returned by the labelling collaborator are 0..MaxLabel
MaxLabel == 1
\* the most boundary pixels of an input mask of the healing specification
MaxBoundary == 4
\* side of the square grid with a single undefined pixel
SingleDim == 4
\* the pass counter of the healing loop saturates here
PassCap == 3

---------------------------------------------------------------------------
(* Floating-point arithmetic *)

NaN == -1

IsNaN(x) == x = NaN

RECURSIVE Pow2(_)
Pow2(n) == IF n = 0 THEN 1 ELSE 2 * Pow2(n - 1)

\* 1.0 in units
One == Pow2(Precision - 1)

\* spacing of the representable numbers around magnitude a (in units)
RECURSIVE Ulp(_)
Ulp(a) == IF a < 2 * One THEN 1 ELSE 2 * Ulp(a \div 2)

\* k*s or (k+1)*s, whichever is nearer to (k + r2/(2*ds))*s, ties to even k
RoundTie(k, s, r2, ds) ==
    IF r2 < ds THEN k * s
    ELSE IF r2 > ds THEN (k + 1) * s
    ELSE IF k % 2 = 0 THEN k * s ELSE (k + 1) * s

\* n/d rounded to a multiple of the spacing s
RoundSpacing(n, d, s) ==
    RoundTie(n \div (d * s), s, 2 * (n - (n \div (d * s)) * d * s), d * s)

\* n/d (n >= 0, d > 0) rounded to the nearest representable number, ties to even
RoundMag(n, d) == RoundSpacing(n, d, Ulp(n \div d))

RoundQ(n, d) == IF n < 0 THEN 0 - RoundMag(0 - n, d) ELSE RoundMag(n, d)

Representable(v) == v >= 0 /\ v % Ulp(v) = 0

FAdd(a, b) == RoundQ(a + b, 1)

FSub(a, b) == RoundQ(a - b, 1)

FDiv(a, n) == RoundQ(a, n)

\* np.mod(a, m), m > 0: the exact C remainder, moved into [0, m] by adding m
FMod(a, m) ==
    LET r == IF a >= 0 THEN a % m ELSE 0 - ((0 - a) % m)
    IN  IF r < 0 THEN FAdd(r, m) ELSE r

\* math.pi and 2*math.pi as numbers of the format
PiF == RoundQ(355 * One, 113)

TwoPiF == 2 * PiF

---------------------------------------------------------------------------
(* Grids *)

Pixels(sh) == (0 .. sh[1] - 1) \X (0 .. sh[2] - 1)

\* position of pixel p in row-major order
Index(p, sh) == p[1] * sh[2] + p[2]

PixelAt(k, sh) == <<k \div sh[2], k % sh[2]>>

Fields == [phi1 |-> phi1, phi |-> phi, qua |-> qua, micro |-> micro,
           grains |-> grains]

\* nothing returned
NoReturn == [x |-> <<>>, mis2o |-> <<>>, mis2p |-> <<>>, ori |-> <<>>, ix |-> <<>>,
             tensor |-> <<>>, w |-> <<>>]

\* no file written
NoFiles == [micro_vtk |-> [dimensions |-> <<>>, rows |-> <<>>], phase |-> <<>>]

\* np.fliplr / np.flipud of a field
np_fliplr(f, sh) == [p \in Pixels(sh) |-> f[<<p[1], sh[2] - 1 - p[2]>>]]

\* mutant of np_flipud: the rows are left as they are
np_flipud_none(f, sh) == f

np_flipud(f, sh) == [p \in Pixels(sh) |-> f[<<sh[1] - 1 - p[1], p[2]>>]]

\* np.where(b) of a boolean field b: its true pixels, in row-major order
RECURSIVE np_where(_, _, _)
np_where(b, sh, k) ==
    IF k = sh[1] * sh[2] THEN <<>>
    ELSE (IF b[PixelAt(k, sh)] THEN <<PixelAt(k, sh)>> ELSE <<>>)
         \o np_where(b, sh, k + 1)

\* mutant of np_isnan: a zero is taken for a missing value too
np_isnan_or_zero(f, sh) == [p \in Pixels(sh) |-> IsNaN(f[p]) \/ f[p] = 0]

np_isnan(f, sh) == [p \in Pixels(sh) |-> IsNaN(f[p])]

Range(s) == {s[i] : i \in 1 .. Len(s)}

---------------------------------------------------------------------------
(* fliplr and rot180 *)

\* mutant of MirrorAngle: the modulus is pi
MirrorAngle_mod_pi(x) == IF IsNaN(x) THEN NaN ELSE FMod(FSub(PiF, x), PiF)

\* np.mod(math.pi - x, 2*math.pi); NaN stays NaN
MirrorAngle(x) == IF IsNaN(x) THEN NaN ELSE FMod(FSub(PiF, x), TwoPiF)

\* np.mod(math.pi + x, 2*math.pi); NaN stays NaN
RotateAngle(x) == IF IsNaN(x) THEN NaN ELSE FMod(FAdd(PiF, x), TwoPiF)

np_rot180(f, sh) == np_flipud(np_fliplr(f, sh), sh)

\* mutant of FlipLR: the label field is not mirrored
FlipLR_labels_kept(F, sh) ==
    [phi    |-> np_fliplr(F.phi, sh),
     phi1   |-> [p \in Pixels(sh) |-> MirrorAngle(np_fliplr(F.phi1, sh)[p])],
     qua    |-> np_fliplr(F.qua, sh),
     micro  |-> np_fliplr(F.micro, sh),
     grains |-> F.grains]

\* the fields after fliplr() on fields F of shape sh
FlipLR(F, sh) ==
    [phi    |-> np_fliplr(F.phi, sh),
     phi1   |-> [p \in Pixels(sh) |-> MirrorAngle(np_fliplr(F.phi1, sh)[p])],
     qua    |-> np_fliplr(F.qua, sh),
     micro  |-> np_fliplr(F.micro, sh),
     grains |-> np_fliplr(F.grains, sh)]

\* the fields after rot180() on fields F of shape sh
Rot180(F, sh) ==
    [phi    |-> np_rot180(F.phi, sh),
     phi1   |-> [p \in Pixels(sh) |-> RotateAngle(np_rot180(F.phi1, sh)[p])],
     qua    |-> np_rot180(F.qua, sh),
     micro  |-> np_rot180(F.micro, sh),
     grains |-> np_rot180(F.grains, sh)]

\* an operation other than craft has run: F are the new fields
Completed(op, a, res, F) ==
    /\ phi1' = F.phi1
    /\ phi' = F.phi
    /\ qua' = F.qua
    /\ micro' = F.micro
    /\ grains' = F.grains
    /\ last' = op
    /\ arg' = a
    /\ outcome' = res
    /\ pre' = Fields
    /\ idx' = <<>>
    /\ npass' = 0
    /\ lastCount' = 0
    /\ files' = NoFiles
    /\ ret' = NoReturn
    /\ UNCHANGED <<shape, pc, crafted, pos>>

fliplr ==
    /\ pc = "idle"
    /\ Completed("fliplr", 0, "ok", FlipLR(Fields, shape))

rot180 ==
    /\ pc = "idle"
    /\ Completed("rot180", 0, "ok", Rot180(Fields, shape))

---------------------------------------------------------------------------
(* filter *)

\* thresholds passed to filter (quality runs from 0 to 100)
FilterValues == {50, 100}

\* mutant of Filter: quality equal to the threshold is removed too
Filter_le(F, sh, value) ==
    LET x == [p \in Pixels(sh) |-> (~IsNaN(F.qua[p])) /\ F.qua[p] <= value]
    IN  [F EXCEPT !.phi  = [p \in Pixels(sh) |-> IF x[p] THEN NaN ELSE F.phi[p]],
                  !.phi1 = [p \in Pixels(sh) |-> IF x[p] THEN NaN ELSE F.phi1[p]]]

\* the fields after filter(value)
Filter(F, sh, value) ==
    LET x == [p \in Pixels(sh) |-> (~IsNaN(F.qua[p])) /\ F.qua[p] < value]
    IN  [F EXCEPT !.phi  = [p \in Pixels(sh) |-> IF x[p] THEN NaN ELSE F.phi[p]],
                  !.phi1 = [p \in Pixels(sh) |-> IF x[p] THEN NaN ELSE F.phi1[p]]]

filter(value) ==
    /\ pc = "idle"
    /\ Completed("filter", value, "ok", Filter(Fields, shape, value))

---------------------------------------------------------------------------
(* mean_grain *)

\* np.nanmax of the label field (NaN when every label is NaN)
np_nanmax(g, sh) ==
    LET d == {g[p] : p \in Pixels(sh)} \ {NaN}
    IN  IF d = {} THEN NaN ELSE CHOOSE m \in d : \A y \in d : y <= m

\* the sum of the numbers of s[i..], NaN counted as 0, added left to right
RECURSIVE SumFrom(_, _, _)
SumFrom(s, i, acc) ==
    IF i > Len(s) THEN acc
    ELSE SumFrom(s, i + 1, FAdd(acc, IF IsNaN(s[i]) THEN 0 ELSE s[i]))

\* the sum divided by n, NaN when n is 0
MeanOfSum(total, n) == IF n = 0 THEN NaN ELSE FDiv(total, n)

\* mutant of np_nanmean: the sum is divided by the number of all entries
np_nanmean_all(s) ==
    IF \A i \in 1 .. Len(s) : IsNaN(s[i]) THEN NaN ELSE FDiv(SumFrom(s, 1, 0), Len(s))

\* np.nanmean of the sequence s: NaN when s holds no number
np_nanmean(s) ==
    MeanOfSum(SumFrom(s, 1, 0), Cardinality({i \in 1 .. Len(s) : ~IsNaN(s[i])}))

\* the values of field f at the pixels of the sequence ix
Take(f, ix) == [i \in 1 .. Len(ix) |-> f[ix[i]]]

\* the pixels S of fields F receive the orientation (m1, m)
MeanAssign(F, sh, S, m, m1) ==
    [F EXCEPT !.phi  = [p \in Pixels(sh) |-> IF p \in S THEN m ELSE F.phi[p]],
              !.phi1 = [p \in Pixels(sh) |-> IF p \in S THEN m1 ELSE F.phi1[p]]]

\* the pixels ix of fields F receive the nanmean of their own orientations
MeanOver(F, sh, ix) ==
    MeanAssign(F, sh, Range(ix), np_nanmean(Take(F.phi, ix)), np_nanmean(Take(F.phi1, ix)))

\* mutant of MeanOne: the pixels without a label are taken into grain 0
MeanOne_unlabelled_in_0(F, sh, i) ==
    MeanOver(F, sh, np_where([p \in Pixels(sh) |-> F.grains[p] = i \/ (i = 0 /\ IsNaN(F.grains[p]))], sh, 0))

\* mutant of MeanOne: grain i is averaged together with the grains below it
MeanOne_upto(F, sh, i) ==
    MeanOver(F, sh, np_where([p \in Pixels(sh) |-> (~IsNaN(F.grains[p])) /\ F.grains[p] <= i], sh, 0))

\* one turn of the loop of mean_grain: grain i of fields F
MeanOne(F, sh, i) ==
    MeanOver(F, sh, np_where([p \in Pixels(sh) |-> F.grains[p] = i], sh, 0))

\* the turns i..nb of the loop of mean_grain
RECURSIVE MeanLoop(_, _, _, _)
MeanLoop(F, sh, i, nb) ==
    IF i > nb THEN F ELSE MeanLoop(MeanOne(F, sh, i), sh, i + 1, nb)

\* int(np.nanmax(...)) raises ValueError on NaN, before any field is written
mean_grain_upto(nb_grain) ==
    IF IsNaN(nb_grain)
    THEN Completed("mean_grain", 0, "ValueError", Fields)
    ELSE Completed("mean_grain", 0, "ok", MeanLoop(Fields, shape, 0, nb_grain))

mean_grain ==
    /\ pc = "idle"
    /\ mean_grain_upto(np_nanmax(grains, shape))

---------------------------------------------------------------------------
(* craft: the boundary-healing loop *)

\* mutant of Donor: the neighbour of the same column
Donor_same_column(p) == <<IF p[1] = 0 THEN p[1] + 1 ELSE p[1] - 1, p[2]>>

\* the neighbour whose values replace those of the NaN pixel p
Donor(p) == <<IF p[1] = 0 THEN p[1] + 1 ELSE p[1] - 1,
              IF p[2] = 0 THEN p[2] + 1 ELSE p[2] - 1>>

\* the for loop over the NaN pixels ix[i..], each written in place in turn
RECURSIVE HealLoop(_, _, _)
HealLoop(F, ix, i) ==
    IF i > Len(ix) THEN F
    ELSE LET p == ix[i]
             d == Donor(p)
         IN  HealLoop([F EXCEPT !.phi[p] = F.phi[d],
                                !.phi1[p] = F.phi1[d],
                                !.grains[p] = F.grains[d]], ix, i + 1)

\* idx=np.where(np.isnan(self.grains.field)) before the while loop
craft_begin ==
    /\ pc = "idle"
    /\ pc' = "while"
    /\ idx' = np_where(np_isnan(grains, shape), shape, 0)
    /\ npass' = 0
    /\ lastCount' = 0
    /\ last' = "craft"
    /\ arg' = 0
    /\ outcome' = "ok"
    /\ pre' = Fields
    /\ files' = NoFiles
    /\ ret' = NoReturn
    /\ UNCHANGED <<shape, phi1, phi, qua, micro, grains, crafted, pos>>

\* the fields after the for loop, and idx evaluated again on them
craft_pass_end(F) ==
    /\ phi' = F.phi
    /\ phi1' = F.phi1
    /\ grains' = F.grains
    /\ idx' = np_where(np_isnan(F.grains, shape), shape, 0)

\* one turn of the while loop: the for loop, then idx is evaluated again
craft_pass ==
    /\ pc = "while"
    /\ Len(idx) > 0
    /\ craft_pass_end(HealLoop(Fields, idx, 1))
    /\ npass' = IF npass < PassCap THEN npass + 1 ELSE npass
    /\ lastCount' = Len(idx)
    /\ crafted' = TRUE
    /\ UNCHANGED <<shape, qua, micro, pc, last, arg, outcome, pre, files, pos, ret>>

\* np.max of the label field: NaN as soon as one label is NaN
np_max(g, sh) ==
    LET d == {g[p] : p \in Pixels(sh)}
    IN  IF NaN \in d THEN NaN ELSE CHOOSE m \in d : \A y \in d : y <= m

\* the lists phi1 and phi built for the phases 0..max: entry i + 1 holds the
\* orientation of the first pixel (in the order of np.where) of label i, NaN
\* when no pixel has label i
PhaseLists(F, sh) ==
    [n \in 1 .. np_max(F.grains, sh) + 1 |->
        LET ix == np_where([p \in Pixels(sh) |-> F.grains[p] = n - 1], sh, 0)
        IN  IF Len(ix) # 0
            THEN [phi1 |-> F.phi1[ix[1]], phi |-> F.phi[ix[1]]]
            ELSE [phi1 |-> NaN, phi |-> NaN]]

\* the lines written to nameId.phase for the entries L[n..]: no line for an
\* entry whose phi is NaN; phi2 is a random number of [0, 2*pi), of which the
\* line keeps here only that it is one
RECURSIVE PhaseFile(_, _)
PhaseFile(L, n) ==
    IF n > Len(L) THEN <<>>
    ELSE (IF ~IsNaN(L[n].phi)
          THEN <<[phase |-> n - 1, material |-> 0, phi1 |-> L[n].phi1,
                  phi |-> L[n].phi, phi2 |-> "random"]>>
          ELSE <<>>) \o PhaseFile(L, n + 1)

\* the grid written to nameId_micro.vtk: DIMENSIONS, then the labels row by
\* row, last row first
MicroFile(F, sh) ==
    [dimensions |-> <<sh[2], sh[1], 1>>,
     rows |-> [r \in 1 .. sh[1] |-> [c \in 1 .. sh[2] |-> F.grains[<<sh[1] - r, c - 1>>]]]]

\* the while loop is left, no NaN label remains: the files are written
craft_healed ==
    /\ pc = "while"
    /\ Len(idx) = 0
    /\ pc' = "idle"
    /\ files' = [micro_vtk |-> MicroFile(Fields, shape),
                 phase |-> PhaseFile(PhaseLists(Fields, shape), 1)]
    /\ UNCHANGED <<shape, phi1, phi, qua, micro, grains, idx, npass, lastCount,
                   last, arg, outcome, pre, crafted, pos, ret>>

---------------------------------------------------------------------------
(* c-axis vectors and the angle between two of them *)

\* The components of a vector have a sign: a signed number is <<sign, m>>
\* with sign 1 or -1 and m a number of the format, or NaN.
Signed(n) == <<IF n < 0 THEN 0 - 1 ELSE 1, IF n < 0 THEN 0 - n ELSE n>>
SNaN == <<1, NaN>>
Val(c) == c[1] * c[2]

\* the tables below hold cos, sin and arccos at the multiples of 1/TrigStep,
\* in units of 1/TrigScale
TrigStep == 16
TrigScale == 1024

\* 1024 * cos(k/16), k = 0..127
CosTable ==
    <<1024, 1022, 1016, 1006, 992, 974, 953, 928, 899, 866, 830, 791,
      749, 704, 656, 606, 553, 498, 442, 383, 323, 262, 199, 136,
      72, 8, -55, -119, -183, -245, -307, -367, -426, -483, -539, -592,
      -643, -692, -738, -780, -820, -857, -890, -920, -946, -969, -988, -1003,
      -1014, -1021, -1024, -1023, -1018, -1009, -996, -979, -959, -935, -907, -875,
      -840, -802, -761, -716, -669, -620, -567, -513, -457, -399, -339, -278,
      -216, -153, -89, -25, 39, 102, 166, 229, 290, 351, 411, 468,
      524, 578, 630, 679, 726, 769, 810, 848, 882, 913, 940, 963,
      983, 999, 1011, 1019, 1023, 1024, 1020, 1012, 1000, 984, 965, 941,
      914, 884, 850, 813, 772, 728, 682, 633, 582, 528, 472, 414,
      355, 294, 232, 170, 106, 42, -22, -85>>

\* 1024 * sin(k/16), k = 0..127
SinTable ==
    <<0, 64, 128, 191, 253, 315, 375, 434, 491, 546, 599, 650,
      698, 743, 786, 825, 862, 895, 924, 950, 972, 990, 1004, 1015,
      1021, 1024, 1022, 1017, 1008, 994, 977, 956, 931, 903, 871, 835,
      797, 755, 710, 663, 613, 560, 506, 449, 391, 331, 270, 208,
      145, 81, 17, -47, -111, -174, -237, -299, -359, -418, -476, -532,
      -585, -637, -685, -732, -775, -815, -852, -886, -916, -943, -966, -986,
      -1001, -1013, -1020, -1024, -1023, -1019, -1010, -998, -982, -962, -938, -911,
      -880, -845, -807, -766, -722, -676, -626, -575, -520, -464, -406, -347,
      -286, -224, -161, -98, -34, 30, 94, 157, 220, 282, 343, 403,
      461, 517, 571, 623, 673, 720, 764, 805, 843, 878, 909, 936,
      961, 981, 997, 1010, 1018, 1023, 1024, 1020>>

\* 1024 * arccos(k/16), k = 0..16
ArccosTable ==
    <<1608, 1544, 1480, 1415, 1350, 1283, 1215, 1145, 1072, 997, 917, 832,
      740, 637, 517, 364, 0>>

\* np.cos, np.sin of the angle a (below 8.0): the cosine, rounded to the format
np_cos(a) ==
    IF IsNaN(a) THEN SNaN
    ELSE Signed(RoundQ(CosTable[(a * TrigStep) \div One + 1] * One, TrigScale))

np_sin(a) ==
    IF IsNaN(a) THEN SNaN
    ELSE Signed(RoundQ(SinTable[(a * TrigStep) \div One + 1] * One, TrigScale))

\* the rounded products of the magnitudes up to 1.0 (those of the components
\* of a unit vector), computed once
MulTable == [a \in 0 .. One |-> [b \in 0 .. One |-> RoundQ(a * b, One)]]

\* the product and the sum of two signed numbers, rounded; NaN when one is NaN
SMul(c, d) ==
    IF IsNaN(c[2]) \/ IsNaN(d[2]) THEN SNaN
    ELSE Signed(c[1] * d[1] * MulTable[c[2]][d[2]])

SAdd(c, d) ==
    IF IsNaN(c[2]) \/ IsNaN(d[2]) THEN SNaN ELSE Signed(RoundQ(Val(c) + Val(d), 1))

\* np.mod(x - math.pi/2, 2*math.pi); NaN stays NaN
Azimuth(x) == IF IsNaN(x) THEN NaN ELSE FMod(FSub(x, PiF \div 2), TwoPiF)

\* the c-axis vector of a pixel of angles p1 (phi1) and p (phi)
CAxisOf(p1, p) ==
    <<SMul(np_cos(Azimuth(p1)), np_sin(p)), SMul(np_sin(Azimuth(p1)), np_sin(p)), np_cos(p)>>

\* what an angle of a field can be: a number of the format up to 2 pi, or NaN
AngleValues == {NaN} \cup {v \in 0 .. TwoPiF : Representable(v)}

\* the c-axis vectors of all angles, computed once
CAxisTable == [p1 \in AngleValues |-> [p \in AngleValues |-> CAxisOf(p1, p)]]

CAxis(p1, p) == CAxisTable[p1][p]

\* the product of the row v by the column w
Dot(v, w) == SAdd(SAdd(SMul(v[1], w[1]), SMul(v[2], w[2])), SMul(v[3], w[3]))

\* mutant of np_abs: a negative number is taken for 0
np_abs_clip(c) == IF c[1] < 0 THEN 0 ELSE c[2]

\* np.abs: NaN stays NaN
np_abs(c) == c[2]

\* np.arccos of d >= 0: NaN above 1.0
np_arccos(d) ==
    IF IsNaN(d) \/ d > One THEN NaN
    ELSE RoundQ(ArccosTable[(d * TrigStep) \div One + 1] * One, TrigScale)

\* the angle r in degrees: r*180/math.pi
Degrees(r) ==
    IF IsNaN(r) THEN NaN ELSE RoundQ(RoundQ(r * 180, 1) * One, PiF)

\* np.arccos(np.abs(v*np.transpose(w)))*180/math.pi
Misorientation(v, w) == Degrees(np_arccos(np_abs(Dot(v, w))))

---------------------------------------------------------------------------
(* misorientation_profile *)

\* pos holds the two end points <<x, y>> of the line in half pixels (the
\* resolution is two units of pos): yy = pos[.][1]/res counts columns and
\* xx = pos[.][2]/res counts rows from the bottom.  For such end points the
\* double-precision arithmetic of the source gives the roundings of the exact
\* quotients, which is what is computed here.

\* the whole part of the square root of n/4
HalfRoot(n) == CHOOSE k \in 0 .. n : 4 * k * k <= n /\ 4 * (k + 1) * (k + 1) > n

\* np.int32(np.sqrt(dxx**2 + dyy**2)): the whole pixels of the length
NbPixel(ps) ==
    HalfRoot((ps[2][2] - ps[1][2]) * (ps[2][2] - ps[1][2])
             + (ps[2][1] - ps[1][1]) * (ps[2][1] - ps[1][1]))

\* np.round of n/d (d > 0): to the nearest integer, a half to the even one
np_round(n, d) ==
    LET a == IF n < 0 THEN 0 - n ELSE n
        q == a \div d
        r == a % d
        m == IF 2 * r < d THEN q ELSE IF 2 * r > d THEN q + 1
             ELSE IF q % 2 = 0 THEN q ELSE q + 1
    IN  IF n < 0 THEN 0 - m ELSE m

\* xi and yi of step i: ss[0]-round(i*(xx[1]-xx[0])/nb_pixel+xx[0]) and
\* round(i*(yy[1]-yy[0])/nb_pixel+yy[0])
SampleIndex(ps, sh, nb, i) ==
    <<sh[1] - np_round(i * (ps[2][2] - ps[1][2]) + ps[1][2] * nb, 2 * nb),
      np_round(i * (ps[2][1] - ps[1][1]) + ps[1][1] * nb, 2 * nb)>>

\* field[xi, yi] can be read: each index is in -size .. size-1
CanIndex(ix, sh) ==
    /\ 0 - sh[1] <= ix[1] /\ ix[1] < sh[1]
    /\ 0 - sh[2] <= ix[2] /\ ix[2] < sh[2]

\* the pixel field[xi, yi] reads: a negative index counts from the end
Indexed(ix, sh) ==
    <<IF ix[1] < 0 THEN ix[1] + sh[1] ELSE ix[1],
      IF ix[2] < 0 THEN ix[2] + sh[2] ELSE ix[2]>>

\* the neighbour of the root of N (in units squared) on the grid of spacing u
\* that starts at lo: the nearer of lo and lo + u
FSqrtNear(N, lo, u) ==
    IF 4 * N < (2 * lo + u) * (2 * lo + u) THEN lo ELSE lo + u

\* the root of N rounded to the format, k being its whole part
FSqrtFrom(N, k) == FSqrtNear(N, k - (k % Ulp(k)), Ulp(k))

\* np.sqrt of the integer n, rounded to the format
FSqrt(n) ==
    FSqrtFrom(n * One * One,
              CHOOSE r \in 0 .. n * One :
                  r * r <= n * One * One /\ (r + 1) * (r + 1) > n * One * One)

\* the list ori of the steps i-1..n-1: the c-axis at each sampled pixel
RECURSIVE Oris(_, _, _, _, _)
Oris(F, sh, ix, i, n) ==
    IF i > n THEN <<>>
    ELSE <<CAxis(F.phi1[Indexed(ix[i], sh)], F.phi[Indexed(ix[i], sh)])>>
         \o Oris(F, sh, ix, i + 1, n)

\* the lists x, mis2o and mis2p of n steps whose c-axes are ori
ProfileOf(ori, ix, n) ==
    [x     |-> [i \in 1 .. n |->
                   IF i = 1 THEN 0
                   ELSE FSqrt((ix[i][1] - ix[1][1]) * (ix[i][1] - ix[1][1])
                              + (ix[i][2] - ix[1][2]) * (ix[i][2] - ix[1][2]))],
     mis2o |-> [i \in 1 .. n |-> Misorientation(ori[1], ori[i])],
     mis2p |-> [i \in 1 .. n |-> IF i = 1 THEN 0 ELSE Misorientation(ori[i], ori[i - 1])],
     ori   |-> ori,
     ix    |-> [i \in 1 .. n |-> ix[i]],
     tensor |-> <<>>,
     w     |-> <<>>]

\* mutant of ProfileLists: mis2o starts with 0.0, as mis2p and x do
ProfileLists_first_zero(F, sh, ix, n) ==
    [ProfileOf(Oris(F, sh, ix, 1, n), ix, n)
        EXCEPT !.mis2o = [i \in 1 .. n |-> IF i = 1 THEN 0 ELSE @[i]]]

\* the lists after the steps 0..n-1 of the for loop (xi, yi as sequences of
\* pairs in ix)
ProfileLists(F, sh, ix, n) == ProfileOf(Oris(F, sh, ix, 1, n), ix, n)

\* xi, yi of the steps i-1..nb-1
RECURSIVE Samples(_, _, _, _)
Samples(ps, sh, nb, i) ==
    IF i > nb THEN <<>>
    ELSE <<SampleIndex(ps, sh, nb, i - 1)>> \o Samples(ps, sh, nb, i + 1)

\* the first step (counted from 1) whose xi, yi cannot index the fields, 0
\* when every step can
FirstBad(all, sh) ==
    IF \A i \in 1 .. Len(all) : CanIndex(all[i], sh) THEN 0
    ELSE CHOOSE i \in 1 .. Len(all) :
             /\ ~CanIndex(all[i], sh)
             /\ \A j \in 1 .. i - 1 : CanIndex(all[j], sh)

\* the for loop over the samples all stops at step b (0: runs to its end)
profile_loop(all, b) ==
    /\ ret' = [ProfileLists(Fields, shape, all, IF b = 0 THEN Len(all) ELSE b - 1)
                  EXCEPT !.ix = [i \in 1 .. (IF b = 0 THEN Len(all) ELSE b) |-> all[i]]]
    /\ outcome' = IF b = 0 THEN "ok" ELSE "IndexError"

\* the samples all are read in turn
profile_samples(all) == profile_loop(all, FirstBad(all, shape))

\* misorientation_profile(pos=pos): the lists x, mis2o, mis2p are returned; ret
\* also keeps the local lists ori and xi, yi (ix).  A step whose xi, yi cannot
\* index the fields raises IndexError, with xi and yi already appended.
misorientation_profile ==
    /\ pc = "idle"
    /\ profile_samples(Samples(pos, shape, NbPixel(pos), 1))
    /\ last' = "misorientation_profile"
    /\ arg' = 0
    /\ pre' = Fields
    /\ idx' = <<>>
    /\ npass' = 0
    /\ lastCount' = 0
    /\ files' = NoFiles
    /\ UNCHANGED <<shape, phi1, phi, qua, micro, grains, pc, crafted, pos>>

---------------------------------------------------------------------------
(* plotpdf *)

\* The pole figure drawn after np.linalg.eig changes nothing of the object and
\* is not part of the model: plotpdf ends here with the eigenvalues w it
\* returns, or with the exception raised on the way to them.

\* the keyword arguments of the calls: every pixel; the grains of grainlist;
\* grains to be picked on the figure, of which clicks holds the picked pixels
PlotArgs ==
    << [select_grain |-> FALSE, grainlist |-> <<>>, clicks |-> <<>>],
       [select_grain |-> TRUE, grainlist |-> <<1>>, clicks |-> <<>>],
       [select_grain |-> TRUE, grainlist |-> <<>>, clicks |-> <<>>] >>

\* label: grainlist, or the labels under the picked pixels when it is []
Labels(F, a) ==
    IF a.grainlist = <<>> THEN [i \in 1 .. Len(a.clicks) |-> F.grains[a.clicks[i]]]
    ELSE a.grainlist

\* the pixels whose angles go into azi and col, in their order: those of
\* np.where(grains==label[i]) for each i in turn
RECURSIVE GrainPixels(_, _, _, _)
GrainPixels(F, sh, label, i) ==
    IF i > Len(label) THEN <<>>
    ELSE np_where([p \in Pixels(sh) |-> F.grains[p] = label[i]], sh, 0)
         \o GrainPixels(F, sh, label, i + 1)

\* every pixel, in the order of reshape((-1,1))
AllPixels(sh) == np_where([p \in Pixels(sh) |-> TRUE], sh, 0)

\* the sum of the numbers of the signed list s[i..] and how many they are
RECURSIVE SumDefined(_, _)
SumDefined(s, i) ==
    IF i > Len(s) THEN 0
    ELSE (IF IsNaN(s[i][2]) THEN 0 ELSE Val(s[i])) + SumDefined(s, i + 1)

CountDefined(s) == Cardinality({i \in 1 .. Len(s) : ~IsNaN(s[i][2])})

\* mutant of nanmean128: the mean of no number is 0
nanmean128_empty_0(total, n) == IF n = 0 THEN Signed(0) ELSE Signed(RoundQ(total, n))

\* np.float32(np.nanmean(np.float128(...))): the sum is kept exact and the
\* quotient is rounded once; total is the sum of the n numbers of the list
nanmean128(total, n) == IF n = 0 THEN SNaN ELSE Signed(RoundQ(total, n))

\* the products of the components j and k of the vectors c
Products(c, j, k) == [i \in 1 .. Len(c) |-> SMul(c[i][j], c[i][k])]

\* the mean of the list s of signed numbers
TensorEntryOf(s) == nanmean128(SumDefined(s, 1), CountDefined(s))

TensorEntry(c, j, k) == TensorEntryOf(Products(c, j, k))

\* a11, a12, a13, a22, a23, a33 of the c-axis vectors c
Tensor(c) ==
    << TensorEntry(c, 1, 1), TensorEntry(c, 1, 2), TensorEntry(c, 1, 3),
       TensorEntry(c, 2, 2), TensorEntry(c, 2, 3), TensorEntry(c, 3, 3) >>

\* np.linalg.eig refuses an array that holds a NaN
HasNaN(t) == \E i \in 1 .. Len(t) : IsNaN(t[i][2])

\* the eigenvalues of the tensor t are not computed in this arithmetic: they
\* are kept as the tensor they are the eigenvalues of
np_linalg_eig(t) == <<t>>

\* the tensor t is eigendecomposed and w returned
plotpdf_eig(t) ==
    /\ outcome' = IF HasNaN(t) THEN "LinAlgError" ELSE "ok"
    /\ ret' = [NoReturn EXCEPT !.tensor = t,
                               !.w = IF HasNaN(t) THEN <<>> ELSE np_linalg_eig(t)]

\* the c-axis vectors of the pixels ix
plotpdf_samples(ix) ==
    plotpdf_eig(Tensor(Oris(Fields, shape, ix, 1, Len(ix))))

\* plotpdf with the keyword arguments PlotArgs[k].  id[:,1] of the empty array
\* that ginput returns when no pixel is picked raises IndexError.
plotpdf(k) ==
    /\ pc = "idle"
    /\ IF ~PlotArgs[k].select_grain
       THEN plotpdf_samples(AllPixels(shape))
       ELSE IF PlotArgs[k].grainlist = <<>> /\ PlotArgs[k].clicks = <<>>
       THEN outcome' = "IndexError" /\ ret' = NoReturn
       ELSE plotpdf_samples(GrainPixels(Fields, shape, Labels(Fields, PlotArgs[k]), 1))
    /\ last' = "plotpdf"
    /\ arg' = k
    /\ pre' = Fields
    /\ idx' = <<>>
    /\ npass' = 0
    /\ lastCount' = 0
    /\ files' = NoFiles
    /\ UNCHANGED <<shape, phi1, phi, qua, micro, grains, pc, crafted, pos>>

---------------------------------------------------------------------------
(* Construction *)

\* aita(phi1_field, phi_field, qua_field, micro_field): lab is the label field
\* that micro.grain_label() returns
aita_init(sh, p1, p, q, m, lab) ==
    /\ shape = sh
    /\ phi1 = p1
    /\ phi = p
    /\ qua = q
    /\ micro = m
    /\ grains = [x \in Pixels(sh) |-> IF m[x] = 1 THEN NaN ELSE lab[x]]
    /\ pc = "idle"
    /\ idx = <<>>
    /\ npass = 0
    /\ lastCount = 0
    /\ last = "init"
    /\ arg = 0
    /\ outcome = "ok"
    /\ crafted = FALSE
    /\ files = NoFiles
    /\ ret = NoReturn
    /\ pre = [phi1 |-> p1, phi |-> p, qua |-> q, micro |-> m,
              grains |-> [x \in Pixels(sh) |-> IF m[x] = 1 THEN NaN ELSE lab[x]]]

\* input fields whose value tells the pixel
PosAngle(sh) == [p \in Pixels(sh) |-> Index(p, sh) % (2 * One)]

PosPhi(sh) == [p \in Pixels(sh) |-> Index(p, sh) % (PiF \div 2 + 1)]

PosQua(sh) == [p \in Pixels(sh) |-> (Index(p, sh) * 25) % 125]

\* a quality map of one value, between the thresholds of FilterValues
FlatQua(sh) == [p \in Pixels(sh) |-> 75]

PosLabel(sh) == [p \in Pixels(sh) |-> Index(p, sh)]

\* the numbers of the format in [0, 2 pi)
Angles == {v \in 0 .. TwoPiF - 1 : Representable(v)}

\* the line from the top left corner of the map down its left edge, and the
\* lines between any two points of the map (its corners and edges included)
\* whose coordinates are multiples of half a pixel
EdgeLine(sh) == <<<<0, 2 * sh[1]>>, <<0, 0>>>>

MapPoints(sh) == (0 .. 2 * sh[2]) \X (0 .. 2 * sh[1])

SmallShape == <<2, 2>>

\* the azimuths of the 2x2 input map: 0.0, two units, 3.0 and 1.0
SmallPhi1 ==
    (<<0, 0>> :> 0) @@ (<<0, 1>> :> 2) @@ (<<1, 0>> :> 3 * One) @@ (<<1, 1>> :> One)

\* a 2x2 map: any mask, any labels
InitSmall ==
    \E m \in [Pixels(SmallShape) -> {0, 1}] :
    \E lab \in [Pixels(SmallShape) -> 0 .. MaxLabel] :
        /\ aita_init(SmallShape, SmallPhi1, PosPhi(SmallShape), PosQua(SmallShape), m, lab)
        /\ pos = EdgeLine(SmallShape)

\* a 2x2 map of one grain, with every azimuth of the format at pixel (0, 0)
InitAngle ==
    \E a \in Angles :
        /\ aita_init(SmallShape,
                     [PosAngle(SmallShape) EXCEPT ![<<0, 0>>] = a],
                     PosPhi(SmallShape), PosQua(SmallShape),
                     [p \in Pixels(SmallShape) |-> 0],
                     [p \in Pixels(SmallShape) |-> 0])
        /\ pos = EdgeLine(SmallShape)

HealShapes == {<<2, 2>>, <<3, 3>>}

\* maps with up to MaxBoundary boundary pixels, each pixel a grain of its own
InitHeal ==
    \E sh \in HealShapes :
    \E m \in [Pixels(sh) -> {0, 1}] :
        /\ Cardinality({p \in Pixels(sh) : m[p] = 1}) <= MaxBoundary
        /\ aita_init(sh, PosAngle(sh), PosPhi(sh), FlatQua(sh), m, PosLabel(sh))
        /\ pos = EdgeLine(sh)

SingleShape == <<SingleDim, SingleDim>>

\* a square map with a single boundary pixel
InitSingle ==
    \E b \in Pixels(SingleShape) :
        /\ aita_init(SingleShape, PosAngle(SingleShape), PosPhi(SingleShape),
                     FlatQua(SingleShape),
                     [p \in Pixels(SingleShape) |-> IF p = b THEN 1 ELSE 0],
                     PosLabel(SingleShape))
        /\ pos = EdgeLine(SingleShape)

ProfileShape == <<2, 2>>

\* a map of 2x2 pixels of one grain: with any line between two points of the
\* map when it has no boundary pixel, and with the line down its left edge
\* for every mask
InitProfile ==
    \E a \in MapPoints(ProfileShape) :
    \E b \in MapPoints(ProfileShape) :
    \E m \in [Pixels(ProfileShape) -> {0, 1}] :
        /\ (\E p \in Pixels(ProfileShape) : m[p] = 1) => <<a, b>> = EdgeLine(ProfileShape)
        /\ aita_init(ProfileShape, PosAngle(ProfileShape), PosPhi(ProfileShape),
                     FlatQua(ProfileShape), m,
                     [p \in Pixels(ProfileShape) |-> 0])
        /\ pos = <<a, b>>

Init == InitSmall \/ InitAngle

Next ==
    \/ fliplr
    \/ rot180
    \/ \E value \in FilterValues : filter(value)
    \/ mean_grain
    \/ craft_begin
    \/ craft_pass
    \/ craft_healed
    \/ misorientation_profile
    \/ \E k \in 1 .. Len(PlotArgs) : plotpdf(k)

Spec == Init /\ [][Next]_vars

\* maps of 2x2 and 3x3 pixels with any mask of up to MaxBoundary boundary pixels
SpecHeal == InitHeal /\ [][Next]_vars

\* square maps with a single boundary pixel
SpecSingle == InitSingle /\ [][Next]_vars

\* a map of 2x2 pixels with any profile line inside it
SpecProfile == InitProfile /\ [][Next]_vars

---------------------------------------------------------------------------
(* Properties *)

\* craft has left its healing loop
Healed == last = "craft" /\ pc = "idle"

UndefinedAtStart == {p \in Pixels(shape) : IsNaN(pre.grains[p])}

\* C1: the healing loop is bounded: it never starts another pass after a full
\* pass that did not reduce the number of undefined labels (it has then ended
\* with HealingDidNotConverge), so it cannot run indefinitely.
C1_HealingBounded ==
    (pc = "while" /\ npass >= 1 /\ Len(idx) > 0) => Len(idx) < lastCount

\* C2: healing a field whose labels are all undefined ends in the
\* HealingDidNotConverge outcome once a full pass has made no progress.
C2_AllUndefinedFails ==
    (last = "craft" /\ npass >= 1 /\ UndefinedAtStart = Pixels(shape))
        => (pc = "idle" /\ outcome = "HealingDidNotConverge")

\* C3: when healing has finished, no label and no orientation (phi1, phi) is
\* undefined, whatever the state healing started from.
C3_HealedNoUndefined ==
    Healed => \A p \in Pixels(shape) :
                 ~IsNaN(grains[p]) /\ ~IsNaN(phi1[p]) /\ ~IsNaN(phi[p])

C5_SingleDonor ==
    (Healed /\ Cardinality(UndefinedAtStart) = 1)
        => \A p \in UndefinedAtStart :
               LET di == IF p[1] = 0 THEN 1 ELSE p[1] - 1
                   dj == IF p[2] = 0 THEN 1 ELSE p[2] - 1
               IN  /\ grains[p] = pre.grains[<<di, dj>>]
                   /\ phi1[p] = pre.phi1[<<di, dj>>]
                   /\ phi[p] = pre.phi[<<di, dj>>]
                   /\ (shape = <<4, 4>> /\ p = <<1, 1>>)
                          => /\ grains[p] = pre.grains[<<0, 0>>]
                             /\ phi1[p] = pre.phi1[<<0, 0>>]
                             /\ phi[p] = pre.phi[<<0, 0>>]

C5_Witness ==
    /\ Healed
    /\ UndefinedAtStart = {<<1, 1>>}
    /\ grains[<<1, 1>>] = pre.grains[<<0, 0>>]
    /\ ~IsNaN(phi1[<<1, 1>>])
    /\ phi1[<<1, 1>>] # pre.phi1[<<1, 1>>]

InRange(x) == x >= 0 /\ x < TwoPiF

\* the distance of two azimuths on the circle
CircDist(a, b) ==
    LET d == IF a >= b THEN a - b ELSE b - a
    IN  IF d <= TwoPiF - d THEN d ELSE TwoPiF - d

\* two units in the last place of 2 pi
RoundTripTol == 2 * Ulp(TwoPiF)

Mirrored(p) == <<p[1], shape[2] - 1 - p[2]>>

Rotated(p) == <<shape[1] - 1 - p[1], shape[2] - 1 - p[2]>>

\* C7 as claimed: fliplr applied twice, and rot180 applied twice, give every
\* pixel back exactly the phi1 in [0, 2 pi) it had.
C7_TwiceRestoresExactly ==
    /\ last = "fliplr" =>
          \A p \in Pixels(shape) :
              InRange(pre.phi1[p]) => FlipLR(Fields, shape).phi1[p] = pre.phi1[p]
    /\ last = "rot180" =>
          \A p \in Pixels(shape) :
              InRange(pre.phi1[p]) => Rot180(Fields, shape).phi1[p] = pre.phi1[p]

\* C7 as amended: fliplr applied twice, and rot180 applied twice, put every
\* pixel back at its position (phi, qua, micro and grains are exactly restored)
\* with a phi1 within two units in the last place of 2 pi of the phi1 in
\* [0, 2 pi) it had: exactly restored but for floating-point rounding.
C7_TwiceRestoresRounded ==
    /\ last = "fliplr" =>
          LET G == FlipLR(Fields, shape)
          IN  /\ G.phi = pre.phi /\ G.qua = pre.qua
              /\ G.micro = pre.micro /\ G.grains = pre.grains
              /\ \A p \in Pixels(shape) :
                     InRange(pre.phi1[p]) =>
                         /\ ~IsNaN(G.phi1[p])
                         /\ CircDist(G.phi1[p], pre.phi1[p]) <= RoundTripTol
    /\ last = "rot180" =>
          LET G == Rot180(Fields, shape)
          IN  /\ G.phi = pre.phi /\ G.qua = pre.qua
              /\ G.micro = pre.micro /\ G.grains = pre.grains
              /\ \A p \in Pixels(shape) :
                     InRange(pre.phi1[p]) =>
                         /\ ~IsNaN(G.phi1[p])
                         /\ CircDist(G.phi1[p], pre.phi1[p]) <= RoundTripTol

C7_Witness ==
    /\ last = "fliplr"
    /\ \A p \in Pixels(shape) : InRange(pre.phi1[p])
    /\ \E p \in Pixels(shape) :
           /\ phi1[Mirrored(p)] # pre.phi1[p]
           /\ FlipLR(Fields, shape).phi1[p] = pre.phi1[p]
    /\ \E p \in Pixels(shape) :
           /\ FlipLR(Fields, shape).phi1[p] # pre.phi1[p]
           /\ CircDist(FlipLR(Fields, shape).phi1[p], pre.phi1[p]) <= RoundTripTol

\* C8: fliplr and rot180 carry the phi of each pixel unchanged to the pixel's
\* new position, and phi1 and phi are undefined at the new position exactly
\* when they were undefined at the old one.
C8_PhiCarried ==
    /\ last = "fliplr" =>
          \A p \in Pixels(shape) :
              /\ phi[Mirrored(p)] = pre.phi[p]
              /\ IsNaN(phi1[Mirrored(p)]) <=> IsNaN(pre.phi1[p])
    /\ last = "rot180" =>
          \A p \in Pixels(shape) :
              /\ phi[Rotated(p)] = pre.phi[p]
              /\ IsNaN(phi1[Rotated(p)]) <=> IsNaN(pre.phi1[p])

C8_Witness ==
    /\ last = "rot180"
    /\ phi # pre.phi
    /\ \E p \in Pixels(shape) : IsNaN(pre.phi[p]) /\ IsNaN(pre.phi1[p])
    /\ \E p \in Pixels(shape) : ~IsNaN(pre.phi[p]) /\ ~IsNaN(pre.phi1[p])

\* C9: filter(value) sets phi1 and phi to undefined at exactly the pixels whose
\* quality is strictly below value, leaves them unchanged elsewhere, and leaves
\* qua, micro and grains unchanged.
C9_FilterFrame ==
    last = "filter" =>
        /\ \A p \in Pixels(shape) :
               IF pre.qua[p] < arg
               THEN IsNaN(phi1[p]) /\ IsNaN(phi[p])
               ELSE phi1[p] = pre.phi1[p] /\ phi[p] = pre.phi[p]
        /\ qua = pre.qua
        /\ micro = pre.micro
        /\ grains = pre.grains

C9_Witness ==
    /\ last = "filter"
    /\ \E p \in Pixels(shape) : pre.qua[p] < arg /\ ~IsNaN(pre.phi1[p])
    /\ \E p \in Pixels(shape) : pre.qua[p] = arg /\ ~IsNaN(phi1[p])

\* the exact sum of field f over the pixels of S
RECURSIVE SumOver(_, _)
SumOver(f, S) ==
    IF S = {} THEN 0
    ELSE LET p == CHOOSE q \in S : TRUE IN f[p] + SumOver(f, S \ {p})

Abs(x) == IF x < 0 THEN 0 - x ELSE x

\* m is the mean of the n numbers of sum total, but for the rounding of the n
\* floating-point operations that compute it (each within half a unit in the
\* last place, or half a unit below 1.0)
MeanOf(m, total, n) ==
    2 * Pow2(Precision) * Abs(n * m - total) <= 2 * (n + 1) * total + n * Pow2(Precision)

\* after mean_grain every pixel of S holds in f the mean of the defined values
\* that the pixels of S held in f0 (NaN when none was defined)
GrainMean(f, f0, S) ==
    LET D == {p \in S : ~IsNaN(f0[p])}
    IN  IF D = {} THEN \A p \in S : IsNaN(f[p])
        ELSE \E m \in {f[p] : p \in S} :
                 /\ \A p \in S : f[p] = m
                 /\ ~IsNaN(m)
                 /\ MeanOf(m, SumOver(f0, D), Cardinality(D))

\* C10: after mean_grain, for every label present, all pixels of that label
\* hold the same phi1 and the same phi, the unweighted arithmetic mean (as
\* floating-point arithmetic computes it) of the defined phi1 (phi) they held
\* before; label 0 with phi1 0.0 and two units and label 1 with phi1 3.0 give
\* one unit on the pixels of label 0 and 3.0 on the pixel of label 1.
C10_GrainMean ==
    (last = "mean_grain" /\ outcome = "ok") =>
        /\ \A i \in {grains[p] : p \in Pixels(shape)} \ {NaN} :
               LET S == {p \in Pixels(shape) : pre.grains[p] = i}
               IN  /\ GrainMean(phi1, pre.phi1, S)
                   /\ GrainMean(phi, pre.phi, S)
        /\ grains = pre.grains
        /\ ( /\ pre.phi1 = SmallPhi1
             /\ pre.grains[<<0, 0>>] = 0 /\ pre.grains[<<0, 1>>] = 0
             /\ pre.grains[<<1, 0>>] = 1 /\ IsNaN(pre.grains[<<1, 1>>]) )
           => ( /\ phi1[<<0, 0>>] = 1 /\ phi1[<<0, 1>>] = 1
                /\ phi1[<<1, 0>>] = 3 * One )

C10_Witness ==
    /\ last = "mean_grain"
    /\ outcome = "ok"
    /\ pre.phi1 = SmallPhi1
    /\ pre.grains[<<0, 0>>] = 0 /\ pre.grains[<<0, 1>>] = 0
    /\ pre.grains[<<1, 0>>] = 1 /\ IsNaN(pre.grains[<<1, 1>>])
    /\ phi1[<<0, 0>>] = 1 /\ phi1[<<0, 1>>] = 1 /\ phi1[<<1, 0>>] = 3 * One

---------------------------------------------------------------------------
(* mean_grain and the boundary pixels *)

\* C11 as stated: in mean_grain the pixels with an undefined label contribute
\* to no grain's average, and after mean_grain their phi1 and phi are
\* undefined.
C11_BoundaryOrientationUndefined ==
    (last = "mean_grain" /\ outcome = "ok") =>
        /\ \A i \in {pre.grains[p] : p \in Pixels(shape)} \ {NaN} :
               LET S == {p \in Pixels(shape) : pre.grains[p] = i}
               IN  GrainMean(phi1, pre.phi1, S) /\ GrainMean(phi, pre.phi, S)
        /\ \A p \in UndefinedAtStart : IsNaN(phi1[p]) /\ IsNaN(phi[p])

\* C11 amended: in mean_grain the pixels with an undefined label contribute
\* to no grain's average (every label's pixels hold the mean of the values of
\* that label's pixels alone), and after mean_grain their label is still
\* undefined and their phi1 and phi are the values they held before.
C11_BoundaryOrientationKept ==
    (last = "mean_grain" /\ outcome = "ok") =>
        /\ \A i \in {pre.grains[p] : p \in Pixels(shape)} \ {NaN} :
               LET S == {p \in Pixels(shape) : pre.grains[p] = i}
               IN  GrainMean(phi1, pre.phi1, S) /\ GrainMean(phi, pre.phi, S)
        /\ \A p \in UndefinedAtStart :
               /\ IsNaN(grains[p])
               /\ phi1[p] = pre.phi1[p]
               /\ phi[p] = pre.phi[p]

\* mean_grain has changed the phi1 of a labelled pixel and left a boundary
\* pixel with a defined orientation
C11_Witness ==
    /\ last = "mean_grain"
    /\ outcome = "ok"
    /\ \E p \in UndefinedAtStart : ~IsNaN(phi1[p]) /\ ~IsNaN(phi[p])
    /\ \E p \in Pixels(shape) \ UndefinedAtStart : phi1[p] # pre.phi1[p]

---------------------------------------------------------------------------
(* mean_grain: the order of the labels *)

\* the orders in which the labels 0..nb can be taken, each label once
Orders(nb) ==
    {o \in [1 .. nb + 1 -> 0 .. nb] : \A a, b \in 1 .. nb + 1 : o[a] = o[b] => a = b}

\* the turns of the loop of mean_grain taken in the order o[k..]
RECURSIVE MeanInOrder(_, _, _, _)
MeanInOrder(F, sh, o, k) ==
    IF k > Len(o) THEN F ELSE MeanInOrder(MeanOne(F, sh, o[k]), sh, o, k + 1)

\* the phi half and the phi1 half of one turn of the loop
MeanPhiOnly(F, sh, i) == [F EXCEPT !.phi = MeanOne(F, sh, i).phi]
MeanPhi1Only(F, sh, i) == [F EXCEPT !.phi1 = MeanOne(F, sh, i).phi1]

\* the phi1 halves in the order o[k..]
RECURSIVE Phi1InOrder(_, _, _, _)
Phi1InOrder(F, sh, o, k) ==
    IF k > Len(o) THEN F ELSE Phi1InOrder(MeanPhi1Only(F, sh, o[k]), sh, o, k + 1)

\* the phi halves in the order o[k..1], last label first
RECURSIVE PhiInReverse(_, _, _, _)
PhiInReverse(F, sh, o, k) ==
    IF k < 1 THEN F ELSE PhiInReverse(MeanPhiOnly(F, sh, o[k]), sh, o, k - 1)

\* C12: grain averaging is order-independent: the phi1 and phi fields that
\* mean_grain leaves are those that the turns of its loop give when the labels
\* are taken in any order, and when the phi1 averages of all labels (in that
\* order) are made before the phi averages (in the opposite order).
C12_OrderIndependent ==
    (last = "mean_grain" /\ outcome = "ok") =>
        \A o \in Orders(np_nanmax(pre.grains, shape)) :
            LET G == MeanInOrder(pre, shape, o, 1)
                H == PhiInReverse(Phi1InOrder(pre, shape, o, 1), shape, o, Len(o))
            IN  /\ G.phi1 = phi1 /\ G.phi = phi
                /\ H.phi1 = phi1 /\ H.phi = phi

\* mean_grain has averaged two grains of two pixels each, changing both
C12_Witness ==
    /\ last = "mean_grain"
    /\ outcome = "ok"
    /\ \A i \in 0 .. 1 :
           /\ Cardinality({p \in Pixels(shape) : pre.grains[p] = i}) = 2
           /\ \E p \in Pixels(shape) : pre.grains[p] = i /\ phi1[p] # pre.phi1[p]

---------------------------------------------------------------------------
(* craft: the phase table *)

\* the labels that have a line in the phase table written by craft
PhaseLabels == {files.phase[n].phase : n \in 1 .. Len(files.phase)}

\* C13: the phase table written by craft holds exactly one line for each
\* distinct label present in the healed label field, and no line for a label
\* of 0..max that no pixel carries.
C13_PhaseTableLabels ==
    Healed =>
        /\ PhaseLabels = {grains[p] : p \in Pixels(shape)}
        /\ \A a, b \in 1 .. Len(files.phase) :
               files.phase[a].phase = files.phase[b].phase => a = b

---------------------------------------------------------------------------
(* craft: when the healing loop ends *)

\* the two pairs of pixels that are each other's donor
EvenPair == {<<0, 0>>, <<1, 1>>}
OddPair == {<<0, 1>>, <<1, 0>>}

\* the k-th pixel of the donor chain of p
RECURSIVE DonorChain(_, _)
DonorChain(p, k) == IF k = 0 THEN p ELSE DonorChain(Donor(p), k - 1)

\* at least one pixel of each pair has a label in the label field g
BothPairsDefined(g) ==
    /\ \E p \in EvenPair : ~IsNaN(g[p])
    /\ \E p \in OddPair : ~IsNaN(g[p])

\* C17: the healing loop of craft ends if and only if, in the label field it
\* starts from, one of (0,0),(1,1) and one of (0,1),(1,0) is defined.  Every
\* donor chain runs into one of these two pairs and stays there; each pixel of
\* a pair is the donor of the other.  If: every pass leaves fewer NaN labels
\* than it found, so the loop cannot go on for ever.  Only if: a pair that
\* starts undefined is undefined after every pass, and the loop is never left.
C17_TerminatesIff ==
    /\ \A p \in Pixels(shape) :
           \E P \in {EvenPair, OddPair} :
               \A k \in shape[1] + shape[2] .. shape[1] + shape[2] + 2 :
                   DonorChain(p, k) \in P
    /\ \A P \in {EvenPair, OddPair} : \A p \in P : Donor(p) \in P \ {p}
    /\ (last = "craft" /\ npass >= 1 /\ BothPairsDefined(pre.grains))
           => Len(idx) < lastCount
    /\ (last = "craft" /\ ~BothPairsDefined(pre.grains))
           => /\ pc = "while"
              /\ Len(idx) > 0
              /\ \A P \in {EvenPair, OddPair} :
                     (\A p \in P : IsNaN(pre.grains[p])) => \A p \in P : IsNaN(grains[p])

\* the loop has ended after two passes on a 3x3 grid
C17_Witness ==
    /\ Healed
    /\ shape = <<3, 3>>
    /\ npass = 2
    /\ BothPairsDefined(pre.grains)
    /\ \E p \in EvenPair \cup OddPair : IsNaN(pre.grains[p])

---------------------------------------------------------------------------
(* craft: what the healing loop writes *)

---------------------------------------------------------------------------
(* misorientation_profile: the first sample *)

Profiled == last = "misorientation_profile" /\ outcome = "ok" /\ Len(ret.mis2o) >= 1

\* the pixel of the first sample
FirstPixel == Indexed(ret.ix[1], shape)

\* the sum of the squares of the components of v, in units of 1/(One*One)
SquareSum(v) == Val(v[1]) * Val(v[1]) + Val(v[2]) * Val(v[2]) + Val(v[3]) * Val(v[3])

---------------------------------------------------------------------------
(* the angle between two vectors and their opposites *)

\* the opposite vector
Neg(v) == [k \in 1 .. 3 |-> <<0 - v[k][1], v[k][2]>>]

\* C15: the misorientation between two c-axis vectors v and w is unchanged
\* when either is replaced by its opposite: for any two samples of a profile
\* the angles of (v, w), (v, -w) and (-v, w) are the same, and mis2o and mis2p
\* are the angles to the opposite of the origin and of the previous sample.
C15_Antipodal ==
    Profiled =>
        /\ \A i, j \in 1 .. Len(ret.ori) :
               LET v == ret.ori[i]
                   w == ret.ori[j]
               IN  /\ Misorientation(v, Neg(w)) = Misorientation(v, w)
                   /\ Misorientation(Neg(v), w) = Misorientation(v, w)
        /\ \A i \in 1 .. Len(ret.ori) :
               /\ ret.mis2o[i] = Misorientation(Neg(ret.ori[1]), ret.ori[i])
               /\ i > 1 => ret.mis2p[i] = Misorientation(ret.ori[i], Neg(ret.ori[i - 1]))

\* a profile of two samples whose vectors differ and are not orthogonal: the
\* product with the opposite vector is negative
C15_Witness ==
    /\ Profiled
    /\ Len(ret.ori) = 2
    /\ ret.ori[1] # ret.ori[2]
    /\ ~IsNaN(ret.mis2o[2])
    /\ ret.mis2o[2] > 0
    /\ Dot(ret.ori[1], Neg(ret.ori[2]))[1] < 0
    /\ Dot(ret.ori[1], ret.ori[2])[2] > 0

---------------------------------------------------------------------------
(* misorientation_profile: the sampled indices *)

\* both end points lie in the map, its edges included
InsideMap == \A k \in 1 .. 2 : pos[k] \in MapPoints(shape)

\* C19: for two end points inside the map, every sampled index pair (xi, yi)
\* has 0 <= xi < rows and 0 <= yi < cols: no sample reads outside the grid
\* (which raises IndexError) nor through a negative index.
C19_SamplesInGrid ==
    (last = "misorientation_profile" /\ InsideMap) =>
        /\ outcome = "ok"
        /\ \A i \in 1 .. Len(ret.ix) :
               /\ 0 <= ret.ix[i][1] /\ ret.ix[i][1] < shape[1]
               /\ 0 <= ret.ix[i][2] /\ ret.ix[i][2] < shape[2]

---------------------------------------------------------------------------
(* the orientation tensor over no defined sample *)

\* the pixels whose angles plotpdf takes as samples under the arguments a
SampledPixels(F, sh, a) ==
    IF ~a.select_grain THEN Pixels(sh)
    ELSE {p \in Pixels(sh) :
             \E i \in 1 .. Len(Labels(F, a)) : F.grains[p] = Labels(F, a)[i]}

\* plotpdf was the last operation, and none of its samples had both angles
NoDefinedSample ==
    /\ last = "plotpdf"
    /\ \A p \in SampledPixels(pre, shape, PlotArgs[arg]) :
           IsNaN(pre.phi1[p]) \/ IsNaN(pre.phi[p])

\* grains were to be picked on the figure and none was
NothingPicked ==
    /\ PlotArgs[arg].select_grain
    /\ Len(PlotArgs[arg].grainlist) = 0
    /\ Len(PlotArgs[arg].clicks) = 0

====
